---- MODULE Spec2Model ----
(***************************************************************************)
(* Model of services/gemini_service.py: the GeminiService class.           *)
(*                                                                         *)
(* A response text is a sequence of tokens:                                *)
(*   "F"  a fence marker ```            "J"  the word json                 *)
(*   "N"  whitespace (a newline)        "P"  prose that is not JSON        *)
(*   "S"  the phrase "AI service temporarily unavailable"                  *)
(*   "B"  a bar |                       "D"  one JSON document             *)
(* The document a "D" stands for is carried beside the text (doc).         *)
(* Scores are kept in tenths: 8.5 is 85.                                   *)
(***************************************************************************)
EXTENDS Integers, Sequences, FiniteSets, TLC

\* ------------------------------------------------------------------ bounds
MaxLen == 3
MaxNum == 6
MaxBatch == 3
NumCallers == 2
MaxTime == 1
MaxCalls == 3

\* ------------------------------------------------------------------ texts
Alphabet == {"F", "J", "N", "P", "S", "D"}

\* every token sequence of at most n tokens
SeqsUpTo(S, n) == UNION {[1..k -> S] : k \in 0..n}

\* texts with bars, for generate_flashcards
BarTexts ==
    {<<"P", "B", "P">>, <<"B">>, <<"P", "B", "P", "N", "P">>,
     <<"P", "B", "P", "N", "N", "P", "B", "B", "P">>}

Texts == SeqsUpTo(Alphabet, MaxLen) \cup BarTexts

Range(s) == {s[i] : i \in 1..Len(s)}

IsWs(t) == t = "N"

\* str.strip() (the cleaning steps, e.g. lines 89, 91, 93)
RECURSIVE LStrip(_)
LStrip(s) == IF s # <<>> /\ IsWs(Head(s)) THEN LStrip(Tail(s)) ELSE s

RECURSIVE RStrip(_)
RStrip(s) ==
    IF s # <<>> /\ IsWs(s[Len(s)]) THEN RStrip(SubSeq(s, 1, Len(s) - 1)) ELSE s

Strip(s) == RStrip(LStrip(s))

\* the first position at which sep occurs in s, 0 when it does not
Find(s, sep) ==
    LET hits == {i \in 1..(Len(s) - Len(sep) + 1) : SubSeq(s, i, i + Len(sep) - 1) = sep}
    IN  IF hits = {} THEN 0 ELSE CHOOSE i \in hits : \A j \in hits : i <= j

\* sep in s
Contains(s, sep) == Find(s, sep) # 0

\* str.split(sep): the pieces between the occurrences of sep, left to right
RECURSIVE Split(_, _)
Split(s, sep) ==
    LET i == Find(s, sep)
    IN  IF i = 0 THEN <<s>>
        ELSE <<SubSeq(s, 1, i - 1)>> \o Split(SubSeq(s, i + Len(sep), Len(s)), sep)

FenceJson == <<"F", "J">>
Fence == <<"F">>

\* ------------------------------------------------------------------ JSON documents
QA(i) == [id |-> i, q |-> TRUE, a |-> TRUE]
QOnly(i) == [id |-> i, q |-> TRUE, a |-> FALSE]

\* A JSON value: kind, the kinds of the values under its keys (a nested key is
\* written parent/child), the elements of its list, its score, and whether its
\* text contains the sentinel phrase.
MkDoc(kind, fields, items, score, sent) ==
    [kind |-> kind, fields |-> fields, items |-> items, score |-> score, sent |-> sent]

NoDoc == MkDoc("none", {}, <<>>, 0, FALSE)

DocQuizFull == MkDoc("object", {<<"quiz", "list">>}, <<QA(1), QA(2)>>, 0, FALSE)
DocQuizPartial == MkDoc("object", {<<"quiz", "list">>}, <<QA(1), QOnly(2)>>, 0, FALSE)
DocQuizScalar == MkDoc("object", {<<"quiz", "number">>}, <<>>, 0, FALSE)
DocArray == MkDoc("array", {}, <<QA(1), QOnly(2)>>, 0, FALSE)
DocEmptyObject == MkDoc("object", {}, <<>>, 0, FALSE)
DocNumber == MkDoc("number", {}, <<>>, 0, FALSE)
DocAssignment ==
    MkDoc("object", {<<"assignment", "dict">>, <<"assignment/questions", "list">>},
          <<QA(1)>>, 0, FALSE)
DocAssignmentScalar == MkDoc("object", {<<"assignment", "number">>}, <<>>, 0, FALSE)
DocScore(s) ==
    MkDoc("object", {<<"score", "number">>, <<"feedback", "string">>}, <<>>, s, FALSE)
DocSentinel == MkDoc("object", {<<"reply", "string">>}, <<>>, 0, TRUE)

Docs ==
    {DocQuizFull, DocQuizPartial, DocQuizScalar, DocArray, DocEmptyObject, DocNumber,
     DocAssignment, DocAssignmentScalar, DocScore(14), DocScore(-3), DocScore(7),
     DocSentinel}

Keys(doc) == {f[1] : f \in doc.fields}

\* dict.get(key, default): the kind of the value under key, "absent" when missing
KindOf(doc, key) ==
    IF key \in Keys(doc) THEN (CHOOSE f \in doc.fields : f[1] = key)[2] ELSE "absent"

\* len(v) raises TypeError for a number
HasLen(kind) == kind \in {"list", "dict", "string", "absent"}

\* ------------------------------------------------------------------ the remote call
ErrMsgs == {<<>>, <<"P">>, <<"B">>}

\* what client.models.generate_content did: returned a response whose text is
\* a string or None, or raised
OkOutcome(t, d) == [kind |-> "ok", text |-> t, doc |-> d, msg |-> <<>>]
NoneOutcome == [kind |-> "none", text |-> <<>>, doc |-> NoDoc, msg |-> <<>>]
RaiseOutcome(m) == [kind |-> "raise", text |-> <<>>, doc |-> NoDoc, msg |-> m]

\* the documents a text can carry
DocsOf(t) == IF "D" \in Range(t) THEN Docs ELSE {NoDoc}

\* _call_gemini answering a failed call with a message of its own wording
CallGeminiPlainMessage(outcome) ==
    CASE outcome.kind = "ok" -> [none |-> FALSE, text |-> outcome.text, doc |-> outcome.doc]
      [] outcome.kind = "none" -> [none |-> TRUE, text |-> <<>>, doc |-> NoDoc]
      [] outcome.kind = "raise" ->
            [none |-> FALSE, text |-> <<"P">> \o outcome.msg, doc |-> NoDoc]

\* _call_gemini: response.text (a string, or None), or on any exception the
\* message "AI service temporarily unavailable. Please try again later. Error: ..."
CallGemini(outcome) ==
    CASE outcome.kind = "ok" -> [none |-> FALSE, text |-> outcome.text, doc |-> outcome.doc]
      [] outcome.kind = "none" -> [none |-> TRUE, text |-> <<>>, doc |-> NoDoc]
      [] outcome.kind = "raise" ->
            [none |-> FALSE, text |-> <<"S", "P">> \o outcome.msg, doc |-> NoDoc]

\* "AI service temporarily unavailable" in response_text
HasSentinel(resp) ==
    \/ "S" \in Range(resp.text)
    \/ "D" \in Range(resp.text) /\ resp.doc.sent

\* ------------------------------------------------------------------ results
\* A returned dict: via names the return statement that built it ("raised": no
\* dict, an exception left the method), marker is the "fallback": True entry,
\* error the "error" entry, null a payload of None.
MkRes(via, shape, marker, error, text, doc, qs, cards, score) ==
    [via |-> via, shape |-> shape, marker |-> marker, error |-> error, text |-> text,
     doc |-> doc, qs |-> qs, cards |-> cards, score |-> score, null |-> FALSE]

NoRes == MkRes("none", "none", FALSE, FALSE, <<>>, NoDoc, <<>>, <<>>, 0)

\* the outcome of a try body: a returned value, or a raised exception
Ret(v) == [exc |-> "none", val |-> v]
Raise(e) == [exc |-> e, val |-> NoRes]

\* an exception no handler caught leaves the method
Propagate(e) == MkRes("raised", e, FALSE, FALSE, <<>>, NoDoc, <<>>, <<>>, 0)

\* try: body / except Exception: handler
ExceptException(body, handler) == IF body.exc = "none" THEN body.val ELSE handler

Min(a, b) == IF a < b THEN a ELSE b

\* a slice that ignores its bound: seq[:]
TakeWhole(seq, n) == seq

\* seq[:n] for n >= 0
Take(seq, n) == SubSeq(seq, 1, Min(n, Len(seq)))

\* json.loads: surrounding whitespace is allowed, anything but one document raises
JsonLoads(t, doc) ==
    IF Strip(t) = <<"D">> THEN [ok |-> TRUE, doc |-> doc] ELSE [ok |-> FALSE, doc |-> NoDoc]

\* the cleaning of generate_quiz and generate_assignment
CleanFenced(text) ==
    LET t == Strip(text)
    IN  IF Contains(t, FenceJson)
        THEN Strip(Split(Split(t, FenceJson)[2], Fence)[1])
        ELSE IF Contains(t, Fence)
             THEN (IF Len(Split(t, Fence)) > 2 THEN Strip(Split(t, Fence)[2]) ELSE t)
             ELSE t

\* the cleaning of grade_assignment
CleanJsonFence(text) ==
    LET t == Strip(text)
    IN  IF Contains(t, FenceJson)
        THEN Strip(Split(Split(t, FenceJson)[2], Fence)[1])
        ELSE t

FallbackQuizQuestions == <<1, 2, 3>>
FallbackAssignmentQuestions == <<1, 2, 3, 4, 5>>

GetFallbackQuiz(via, n) ==
    MkRes(via, "quiz", FALSE, FALSE, <<>>, NoDoc, Take(FallbackQuizQuestions, n), <<>>, 0)

GetFallbackAssignment(via, n) ==
    MkRes(via, "assignment", FALSE, FALSE, <<>>, NoDoc,
          Take(FallbackAssignmentQuestions, n), <<>>, 0)

\* return result: the parsed JSON value itself
Parsed(doc) == MkRes("genuine", "parsed", FALSE, FALSE, <<>>, doc, <<>>, <<>>, 0)

\* the try body of generate_quiz (lines 81-98)
QuizBody(resp, n) ==
    IF resp.none THEN Raise("TypeError")
    ELSE IF HasSentinel(resp) THEN Ret(GetFallbackQuiz("sentinel", n))
    ELSE LET parsed == JsonLoads(CleanFenced(resp.text), resp.doc)
         IN  IF ~parsed.ok THEN Raise("JSONDecodeError")
             ELSE IF parsed.doc.kind # "object" THEN Raise("AttributeError")
             ELSE IF ~HasLen(KindOf(parsed.doc, "quiz")) THEN Raise("TypeError")
             ELSE Ret(Parsed(parsed.doc))

GenerateQuiz(resp, n) ==
    LET body == QuizBody(resp, n)
    IN  IF body.exc = "JSONDecodeError" THEN GetFallbackQuiz("jsonerror", n)
        ELSE ExceptException(body, GetFallbackQuiz("except", n))

\* the try body of generate_assignment (lines 177-194)
AssignmentBody(resp, n) ==
    IF resp.none THEN Raise("TypeError")
    ELSE IF HasSentinel(resp) THEN Ret(GetFallbackAssignment("sentinel", n))
    ELSE LET parsed == JsonLoads(CleanFenced(resp.text), resp.doc)
         IN  IF ~parsed.ok THEN Raise("JSONDecodeError")
             ELSE IF parsed.doc.kind # "object" THEN Raise("AttributeError")
             ELSE IF KindOf(parsed.doc, "assignment") \notin {"dict", "absent"}
                  THEN Raise("AttributeError")
             ELSE IF ~HasLen(KindOf(parsed.doc, "assignment/questions"))
                  THEN Raise("TypeError")
             ELSE Ret(Parsed(parsed.doc))

GenerateAssignment(resp, n) ==
    LET body == AssignmentBody(resp, n)
    IN  IF body.exc = "JSONDecodeError" THEN GetFallbackAssignment("jsonerror", n)
        ELSE ExceptException(body, GetFallbackAssignment("except", n))

OverallSentinel == 75
OverallExcept == 70

GradingFallback(via, overall) ==
    MkRes(via, "grading", FALSE, FALSE, <<>>, NoDoc, <<>>, <<>>, overall)

\* the try body of grade_assignment (lines 291-308)
GradeAssignmentBody(resp) ==
    IF resp.none THEN Raise("TypeError")
    ELSE IF HasSentinel(resp) THEN Ret(GradingFallback("sentinel", OverallSentinel))
    ELSE LET parsed == JsonLoads(CleanJsonFence(resp.text), resp.doc)
         IN  IF ~parsed.ok THEN Raise("JSONDecodeError") ELSE Ret(Parsed(parsed.doc))

\* grade_assignment catching json.JSONDecodeError only
GradeAssignmentNarrowExcept(resp) ==
    LET body == GradeAssignmentBody(resp)
    IN  IF body.exc = "none" THEN body.val
        ELSE IF body.exc = "JSONDecodeError" THEN GradingFallback("except", OverallExcept)
        ELSE Propagate(body.exc)

GradeAssignment(resp) ==
    ExceptException(GradeAssignmentBody(resp), GradingFallback("except", OverallExcept))

\* a dict whose payload is the response text
TextRes(via, shape, marker, resp, score) ==
    MkRes(via, shape, marker, FALSE, resp.text, resp.doc, <<>>, <<>>, score)

\* a dict with fixed content
FixedRes(via, shape, marker, error, score) ==
    MkRes(via, shape, marker, error, <<>>, NoDoc, <<>>, <<>>, score)

\* the try bodies of chat_with_tutor, generate_explanation and grade_submission:
\* the sentinel test, then the text as the payload
SentinelOrText(shape, resp, sentinelScore, genuineScore) ==
    IF resp.none THEN Raise("TypeError")
    ELSE IF HasSentinel(resp) THEN Ret(FixedRes("sentinel", shape, TRUE, FALSE, sentinelScore))
    ELSE Ret(TextRes("genuine", shape, FALSE, resp, genuineScore))

ChatWithTutor(resp) ==
    ExceptException(SentinelOrText("chat", resp, 0, 0),
                    FixedRes("except", "chat", TRUE, FALSE, 0))

GenerateExplanation(resp) ==
    ExceptException(SentinelOrText("explanation", resp, 0, 0),
                    FixedRes("except", "explanation", TRUE, FALSE, 0))

ScoreGenuine == 85
ScoreSentinel == 80
ScoreExcept == 75

\* grade_submission taking the score from the response
GradeSubmissionReadsScore(resp) ==
    LET body == SentinelOrText("grade", resp, ScoreSentinel, ScoreGenuine)
    IN  IF body.exc # "none" THEN FixedRes("except", "grade", TRUE, FALSE, ScoreExcept)
        ELSE IF body.val.via = "genuine" /\ KindOf(resp.doc, "score") = "number"
             THEN [body.val EXCEPT !.score = resp.doc.score]
             ELSE body.val

GradeSubmission(resp) ==
    ExceptException(SentinelOrText("grade", resp, ScoreSentinel, ScoreGenuine),
                    FixedRes("except", "grade", TRUE, FALSE, ScoreExcept))

\* the try body of generate_lesson_plan: the raw text is parsed, uncleaned, and
\* is itself the payload when it does not parse (the inner bare except)
LessonPlanBody(resp) ==
    IF resp.none THEN Raise("TypeError")
    ELSE IF HasSentinel(resp) THEN Ret(FixedRes("sentinel", "lesson_plan", TRUE, FALSE, 0))
    ELSE LET parsed == JsonLoads(resp.text, resp.doc)
         IN  IF parsed.ok THEN Ret(Parsed(parsed.doc))
             ELSE Ret(TextRes("rawtext", "lesson_plan", FALSE, resp, 0))

GenerateLessonPlan(resp) ==
    ExceptException(LessonPlanBody(resp), FixedRes("except", "lesson_plan", FALSE, TRUE, 0))

\* PassThroughBody raising on the unavailability message
PassThroughRaisesOnFailure(shape, resp) ==
    IF HasSentinel(resp) THEN Raise("RuntimeError")
    ELSE Ret([TextRes("genuine", shape, FALSE, resp, 0) EXCEPT !.null = resp.none])

\* the try bodies of generate_teaching_resources, analyze_performance,
\* generate_learning_path, generate_study_guide: whatever _call_gemini returned,
\* None included, is the content
PassThroughBody(shape, resp) ==
    Ret([TextRes("genuine", shape, FALSE, resp, 0) EXCEPT !.null = resp.none])

GenerateTeachingResources(resp) ==
    ExceptException(PassThroughBody("resources", resp),
                    FixedRes("except", "resources", FALSE, TRUE, 0))

AnalyzePerformance(resp) ==
    ExceptException(PassThroughBody("analysis", resp),
                    FixedRes("except", "analysis", FALSE, TRUE, ScoreExcept))

GenerateLearningPath(resp) ==
    ExceptException(PassThroughBody("learning_path", resp),
                    FixedRes("except", "path", FALSE, TRUE, 0))

GenerateStudyGuide(resp) ==
    ExceptException(PassThroughBody("study_guide", resp),
                    FixedRes("except", "guide", FALSE, TRUE, 0))

\* line.split('|', 1) of a line that holds a bar
Card(line) ==
    LET i == Find(line, <<"B">>)
    IN  [front |-> Strip(SubSeq(line, 1, i - 1)), back |-> Strip(SubSeq(line, i + 1, Len(line)))]

\* [line.strip() for line in response_text.split('\n') if '|' in line]
RECURSIVE SelectBarLines(_)
SelectBarLines(lines) ==
    IF lines = <<>> THEN <<>>
    ELSE (IF "B" \in Range(Head(lines)) THEN <<Strip(Head(lines))>> ELSE <<>>)
         \o SelectBarLines(Tail(lines))

FallbackCard == [front |-> <<"P">>, back |-> <<"P">>]

Flashcards(via, error, cards) ==
    MkRes(via, "flashcards", FALSE, error, <<>>, NoDoc, <<>>, cards, 0)

\* the try body of generate_flashcards (lines 562-573)
FlashcardsBody(resp, n) ==
    IF resp.none THEN Raise("AttributeError")
    ELSE LET lines == Take(SelectBarLines(Split(resp.text, <<"N">>)), n)
         IN  Ret(Flashcards("genuine", FALSE, [i \in 1..Len(lines) |-> Card(lines[i])]))

GenerateFlashcards(resp, n) ==
    ExceptException(FlashcardsBody(resp, n),
                    Flashcards("except", TRUE, [i \in 1..n |-> FallbackCard]))

Ops ==
    {"generate_quiz", "generate_assignment", "grade_assignment", "chat_with_tutor",
     "generate_explanation", "grade_submission", "generate_lesson_plan",
     "generate_teaching_resources", "analyze_performance", "generate_learning_path",
     "generate_flashcards", "generate_study_guide"}

\* the operations that take a count (num_questions, num_cards)
CountedOps == {"generate_quiz", "generate_assignment", "generate_flashcards"}

Execute(o, resp, n) ==
    CASE o = "generate_quiz" -> GenerateQuiz(resp, n)
      [] o = "generate_assignment" -> GenerateAssignment(resp, n)
      [] o = "grade_assignment" -> GradeAssignment(resp)
      [] o = "chat_with_tutor" -> ChatWithTutor(resp)
      [] o = "generate_explanation" -> GenerateExplanation(resp)
      [] o = "grade_submission" -> GradeSubmission(resp)
      [] o = "generate_lesson_plan" -> GenerateLessonPlan(resp)
      [] o = "generate_teaching_resources" -> GenerateTeachingResources(resp)
      [] o = "analyze_performance" -> AnalyzePerformance(resp)
      [] o = "generate_learning_path" -> GenerateLearningPath(resp)
      [] o = "generate_flashcards" -> GenerateFlashcards(resp, n)
      [] o = "generate_study_guide" -> GenerateStudyGuide(resp)

\* ------------------------------------------------------------------ the batch
\* an element of the requests list: a mapping with or without a 'type' key, or
\* something that is not a mapping (request.get raises AttributeError)
Item(mapping, hasType, type) == [mapping |-> mapping, hasType |-> hasType, type |-> type]

TypedItem(t) == Item(TRUE, TRUE, t)
UntypedItem == Item(TRUE, FALSE, "")
NotAMapping == Item(FALSE, FALSE, "")

Items == {TypedItem("quiz"), TypedItem("chat"), UntypedItem, NotAMapping}

\* the strings "Processed request <n>: <type>" and "Error processing request <n>: ..."
Processed(n, t) == [kind |-> "processed", n |-> n, type |-> t]
ErrorProcessing(n) == [kind |-> "error", n |-> n, type |-> ""]

\* request.get('type', 'unknown')
GetType(request) == IF request.hasType THEN request.type ELSE "unknown"

\* the try body of the loop (lines 608-610), i counting from 0
ItemBody(i, request) ==
    IF ~request.mapping THEN [exc |-> "AttributeError", val |-> ErrorProcessing(0)]
    ELSE [exc |-> "none", val |-> Processed(i + 1, GetType(request))]

\* LoopStep without the per-item try/except: the exception ends the batch
LoopStepAborts(loop, request) ==
    LET body == ItemBody(loop.idx, request)
    IN  IF body.exc = "none"
        THEN [results |-> Append(loop.results, body.val), idx |-> loop.idx + 1,
              calls |-> loop.calls, aborted |-> FALSE]
        ELSE [results |-> loop.results, idx |-> loop.idx, calls |-> loop.calls,
              aborted |-> TRUE]

\* LoopStep whose except branch appends nothing
LoopStepSkipsFailed(loop, request) ==
    LET body == ItemBody(loop.idx, request)
    IN  [results |-> IF body.exc = "none" THEN Append(loop.results, body.val)
                     ELSE loop.results,
         idx |-> loop.idx + 1,
         calls |-> loop.calls,
         aborted |-> FALSE]

\* LoopStep writing every outcome into the first slot
LoopStepOverwrites(loop, request) ==
    LET body == ItemBody(loop.idx, request)
        out == IF body.exc = "none" THEN body.val ELSE ErrorProcessing(loop.idx + 1)
    IN  [results |-> IF loop.results = <<>> THEN <<out>>
                     ELSE [loop.results EXCEPT ![1] = out],
         idx |-> loop.idx + 1,
         calls |-> loop.calls,
         aborted |-> FALSE]

\* LoopStep running the request through the remote adapter
LoopStepCallsRemote(loop, request) ==
    LET body == ItemBody(loop.idx, request)
    IN  [results |-> Append(loop.results,
                            IF body.exc = "none" THEN body.val
                            ELSE ErrorProcessing(loop.idx + 1)),
         idx |-> loop.idx + 1,
         calls |-> IF body.exc = "none" THEN loop.calls + 1 ELSE loop.calls,
         aborted |-> FALSE]

\* one iteration of the loop over enumerate(requests): the state of the loop
\* is its results list, the index of the next item and the remote calls made
LoopStep(loop, request) ==
    LET body == ItemBody(loop.idx, request)
    IN  [results |-> Append(loop.results,
                            IF body.exc = "none" THEN body.val
                            ELSE ErrorProcessing(loop.idx + 1)),
         idx |-> loop.idx + 1,
         calls |-> loop.calls,
         aborted |-> FALSE]

Batches == SeqsUpTo(Items, MaxBatch)

\* ------------------------------------------------------------------ state
VARIABLES
    pc,        \* where the one request of Spec stands: idle, entered, returned, done
    op,        \* the operation called
    num,       \* its num_questions / num_cards argument
    outcome,   \* what client.models.generate_content did
    resp,      \* what _call_gemini returned
    res,       \* what the operation returned
    ncalls,    \* invocations of the remote adapter during this call
    bpc,       \* process_batch_requests: idle, loop, done
    requests,  \* its argument
    results,   \* its results list
    idx,       \* enumerate's i
    bcalls,    \* remote calls made during the batch
    twin,      \* the same batch with one failing item replaced by a good one
    twinAt,    \* position of the replaced item (0: no twin)
    twinResults,
    cpc,       \* per concurrent caller: idle, calling, returned
    cop,       \* its operation
    cresp,     \* what _call_gemini returned to it
    cres,      \* the result of its last finished call
    now,       \* the clock, in seconds
    starts,    \* the start times of the invocations of _call_gemini, in order
    env,       \* the deployment the service was last constructed in
    inst,      \* the fields of the GeminiService instance (NoInstance: none)
    ctorExc,   \* the exception that construction raised ("none": it returned)
    icalls     \* remote calls made through the instance

singleVars == <<pc, op, num, outcome, resp, res, ncalls>>
batchVars == <<bpc, requests, results, idx, bcalls, twin, twinAt, twinResults>>
concVars == <<cpc, cop, cresp, cres, now, starts>>
ctorVars == <<env, inst, ctorExc, icalls>>
vars == <<singleVars, batchVars, concVars, ctorVars>>

NoOutcome == [kind |-> "pending", text |-> <<>>, doc |-> NoDoc, msg |-> <<>>]
NoResp == [none |-> FALSE, text |-> <<>>, doc |-> NoDoc]
Callers == 1..NumCallers

SingleIdle ==
    /\ pc = "idle" /\ op = "none" /\ num = 0 /\ outcome = NoOutcome
    /\ resp = NoResp /\ res = NoRes /\ ncalls = 0

BatchIdle ==
    /\ bpc = "idle" /\ requests = <<>> /\ results = <<>> /\ idx = 0 /\ bcalls = 0
    /\ twin = <<>> /\ twinAt = 0 /\ twinResults = <<>>

ConcIdle ==
    /\ cpc = [c \in Callers |-> "idle"]
    /\ cop = [c \in Callers |-> "none"]
    /\ cresp = [c \in Callers |-> NoResp]
    /\ cres = [c \in Callers |-> NoRes]
    /\ now = 0
    /\ starts = <<>>

\* a deployment: GEMINI_API_KEY (unset, empty or set), whether the google-genai
\* package is installed, whether genai.Client accepts the key, and the
\* requests-per-minute the deployment intends, which no line of the code reads
Env(key, sdk, clientOk, rpm) == [key |-> key, sdk |-> sdk, clientOk |-> clientOk, rpm |-> rpm]

Envs ==
    {Env(k, s, c, r) : k \in {"unset", "empty", "set"}, s \in BOOLEAN, c \in BOOLEAN,
                       r \in {-1, 0, 1, 60}}

\* self.api_key and self.client
Instance(key) == [api_key |-> key, client |-> TRUE]
NoInstance == [api_key |-> "none", client |-> FALSE]

\* GeminiService(api_key): the instance, or the exception that left __init__
\* (api_key[:10] of None; the import; genai.Client)
Construct(e) ==
    IF e.key = "unset" THEN [exc |-> "TypeError", inst |-> NoInstance]
    ELSE IF ~e.sdk THEN [exc |-> "ImportError", inst |-> NoInstance]
    ELSE IF ~e.clientOk THEN [exc |-> "Exception", inst |-> NoInstance]
    ELSE [exc |-> "none", inst |-> Instance(e.key)]

\* get_gemini_service(): the instance, or HTTPException(500)
GetGeminiService(e) ==
    IF e.key \in {"unset", "empty"} THEN [exc |-> "HTTPException", inst |-> NoInstance]
    ELSE IF Construct(e).exc # "none" THEN [exc |-> "HTTPException", inst |-> NoInstance]
    ELSE Construct(e)

\* a service constructed in a working deployment
Constructed ==
    /\ env = Env("set", TRUE, TRUE, 60)
    /\ inst = Instance("set")
    /\ ctorExc = "none"
    /\ icalls = 0

Init == SingleIdle /\ BatchIdle /\ ConcIdle /\ Constructed

\* ------------------------------------------------------------------ one request
\* a caller enters an operation of the service
Call(o, n) ==
    /\ pc = "idle"
    /\ pc' = "entered"
    /\ op' = o
    /\ num' = n
    /\ outcome' = NoOutcome
    /\ resp' = NoResp
    /\ res' = NoRes
    /\ ncalls' = 0
    /\ UNCHANGED <<batchVars, concVars, ctorVars>>

\* Remote with one retry after a failed remote call
RemoteWithRetry ==
    /\ pc = "entered"
    /\ pc' = "returned"
    /\ \/ \E t \in Texts : \E d \in DocsOf(t) : outcome' = OkOutcome(t, d)
       \/ outcome' = NoneOutcome
       \/ \E m \in ErrMsgs : outcome' = RaiseOutcome(m)
    /\ resp' = CallGemini(outcome')
    /\ ncalls' = IF outcome'.kind = "raise" THEN ncalls + 2 ELSE ncalls + 1
    /\ UNCHANGED <<op, num, res, batchVars, concVars, ctorVars>>

\* response_text = self._call_gemini(prompt, ...)
Remote ==
    /\ pc = "entered"
    /\ pc' = "returned"
    /\ \/ \E t \in Texts : \E d \in DocsOf(t) : outcome' = OkOutcome(t, d)
       \/ outcome' = NoneOutcome
       \/ \E m \in ErrMsgs : outcome' = RaiseOutcome(m)
    /\ resp' = CallGemini(outcome')
    /\ ncalls' = ncalls + 1
    /\ UNCHANGED <<op, num, res, batchVars, concVars, ctorVars>>

\* the rest of the operation's body, up to its return
Finish ==
    /\ pc = "returned"
    /\ pc' = "done"
    /\ res' = Execute(op, resp, num)
    /\ UNCHANGED <<op, num, outcome, resp, ncalls, batchVars, concVars, ctorVars>>

\* the caller takes the result; the next request may come
Return ==
    /\ pc = "done"
    /\ pc' = "idle"
    /\ op' = "none"
    /\ num' = 0
    /\ outcome' = NoOutcome
    /\ resp' = NoResp
    /\ res' = NoRes
    /\ ncalls' = 0
    /\ UNCHANGED <<batchVars, concVars, ctorVars>>

Next ==
    \/ pc = "idle" /\ \E o \in Ops : \E n \in (IF o \in CountedOps THEN 0..MaxNum ELSE {0}) : Call(o, n)
    \/ Remote
    \/ Finish
    \/ Return

Spec == Init /\ [][Next]_vars

\* ------------------------------------------------------------------ process_batch_requests
\* a caller passes a list; results = []
BatchCall(reqs, k) ==
    /\ bpc = "idle"
    /\ bpc' = "loop"
    /\ requests' = reqs
    /\ results' = <<>>
    /\ idx' = 0
    /\ bcalls' = 0
    /\ twinAt' = k
    /\ twin' = IF k = 0 THEN reqs ELSE [reqs EXCEPT ![k] = TypedItem("quiz")]
    /\ twinResults' = <<>>
    /\ UNCHANGED <<singleVars, concVars, ctorVars>>

\* one iteration of the for loop, on the batch and on its twin
BatchStep ==
    /\ bpc = "loop"
    /\ idx < Len(requests)
    /\ LET after == LoopStep([results |-> results, idx |-> idx, calls |-> bcalls,
                              aborted |-> FALSE],
                             requests[idx + 1])
           twinAfter == LoopStep([results |-> twinResults, idx |-> idx, calls |-> bcalls,
                                  aborted |-> FALSE],
                                 twin[idx + 1])
       IN  /\ results' = after.results
           /\ idx' = after.idx
           /\ bcalls' = after.calls
           /\ twinResults' = twinAfter.results
           /\ bpc' = IF after.aborted THEN "done" ELSE "loop"
    /\ UNCHANGED <<requests, twin, twinAt, singleVars, concVars, ctorVars>>

\* return results
BatchReturn ==
    /\ bpc = "loop"
    /\ idx = Len(requests)
    /\ bpc' = "done"
    /\ UNCHANGED <<requests, results, idx, bcalls, twin, twinAt, twinResults, singleVars,
                   concVars, ctorVars>>

BatchReset ==
    /\ bpc = "done"
    /\ bpc' = "idle"
    /\ requests' = <<>>
    /\ results' = <<>>
    /\ idx' = 0
    /\ bcalls' = 0
    /\ twin' = <<>>
    /\ twinAt' = 0
    /\ twinResults' = <<>>
    /\ UNCHANGED <<singleVars, concVars, ctorVars>>

\* the positions of the items that raise
Failing(reqs) == {i \in 1..Len(reqs) : ~reqs[i].mapping}

NextBatch ==
    \/ bpc = "idle" /\ \E reqs \in Batches : \E k \in Failing(reqs) \cup {0} : BatchCall(reqs, k)
    \/ BatchStep
    \/ BatchReturn
    \/ BatchReset

SpecBatch == Init /\ [][NextBatch]_vars

\* ------------------------------------------------------------------ concurrent callers
ConcOps == {"generate_quiz", "chat_with_tutor", "generate_study_guide"}

\* a caller enters an operation and reaches its _call_gemini line: the remote
\* call starts now
CInvoke(c, o) ==
    /\ inst # NoInstance
    /\ cpc[c] = "idle"
    /\ Len(starts) < MaxCalls
    /\ cpc' = [cpc EXCEPT ![c] = "calling"]
    /\ cop' = [cop EXCEPT ![c] = o]
    /\ cresp' = [cresp EXCEPT ![c] = NoResp]
    /\ cres' = [cres EXCEPT ![c] = NoRes]
    /\ starts' = Append(starts, now)
    /\ UNCHANGED <<now, singleVars, batchVars, ctorVars>>

\* _call_gemini returns to the caller
CRespond(c) ==
    /\ cpc[c] = "calling"
    /\ \E out \in {OkOutcome(<<"D">>, DocQuizFull), OkOutcome(<<"P">>, NoDoc),
                   RaiseOutcome(<<>>)} :
          cresp' = [cresp EXCEPT ![c] = CallGemini(out)]
    /\ cpc' = [cpc EXCEPT ![c] = "returned"]
    /\ UNCHANGED <<cop, cres, now, starts, singleVars, batchVars, ctorVars>>

\* CFinish keeping the last response in a field of the instance and building
\* the result from that field
CFinishThroughInstance(c) ==
    /\ cpc[c] = "returned"
    /\ inst' = [api_key |-> inst.api_key, client |-> inst.client, last |-> cresp[c]]
    /\ cres' = [cres EXCEPT ![c] =
                   Execute(cop[c], IF "last" \in DOMAIN inst THEN inst.last ELSE cresp[c],
                           MaxNum)]
    /\ cpc' = [cpc EXCEPT ![c] = "idle"]
    /\ UNCHANGED <<cop, cresp, now, starts, singleVars, batchVars, env, ctorExc, icalls>>

\* the operation returns
CFinish(c) ==
    /\ cpc[c] = "returned"
    /\ cres' = [cres EXCEPT ![c] = Execute(cop[c], cresp[c], MaxNum)]
    /\ cpc' = [cpc EXCEPT ![c] = "idle"]
    /\ UNCHANGED <<cop, cresp, now, starts, singleVars, batchVars, ctorVars>>

\* a second passes
Tick ==
    /\ now < MaxTime
    /\ now' = now + 1
    /\ UNCHANGED <<cpc, cop, cresp, cres, starts, singleVars, batchVars, ctorVars>>

NextConc ==
    \/ \E c \in Callers : \E o \in ConcOps : CInvoke(c, o)
    \/ \E c \in Callers : CRespond(c)
    \/ \E c \in Callers : CFinish(c)
    \/ Tick

SpecConc == Init /\ [][NextConc]_vars

\* ------------------------------------------------------------------ construction
\* a request arrives: Depends(get_gemini_service) builds the service for it
Depend(e) ==
    /\ env' = e
    /\ inst' = GetGeminiService(e).inst
    /\ ctorExc' = GetGeminiService(e).exc
    /\ icalls' = 0
    /\ UNCHANGED <<singleVars, batchVars, concVars>>

\* GeminiService(api_key=os.getenv(...)) called directly
New(e) ==
    /\ env' = e
    /\ inst' = Construct(e).inst
    /\ ctorExc' = Construct(e).exc
    /\ icalls' = 0
    /\ UNCHANGED <<singleVars, batchVars, concVars>>

\* an operation of the instance runs self.client.models.generate_content
UseClient ==
    /\ inst # NoInstance
    /\ icalls < MaxCalls
    /\ icalls' = icalls + 1
    /\ UNCHANGED <<env, inst, ctorExc, singleVars, batchVars, concVars>>

NextCtor ==
    \/ \E e \in Envs : Depend(e)
    \/ \E e \in Envs : New(e)
    \/ UseClient

SpecCtor == Init /\ [][NextCtor]_vars

\* ------------------------------------------------------------------ properties
\* a dict in the shape the operation returns on success: returned, not raised,
\* and without an "error" entry
SuccessShaped(r) == r.via \notin {"raised", "none"} /\ ~r.error

\* built by a fallback substitution, not from the model's answer
Substituted(r) == r.via \in {"sentinel", "jsonerror", "except"}

\* the operations that test the response for the unavailability message
SentinelOps ==
    {"generate_quiz", "generate_assignment", "grade_assignment", "chat_with_tutor",
     "generate_explanation", "grade_submission", "generate_lesson_plan"}

\* the operations that parse the response as JSON
JsonOps == {"generate_quiz", "generate_assignment", "grade_assignment", "generate_lesson_plan"}

\* C1: the starts of any two invocations of _call_gemini are at least 60/R
\* seconds apart, for every rate limit R > 0 (R = 60: one second).
C1_MinGapBetweenCalls ==
    \A R \in {1, 30, 60} :
        \A i, j \in 1..Len(starts) : i < j => (starts[j] - starts[i]) * R >= 60

\* C2: process_batch_requests returns one output per input, N >= 0, and the
\* i-th output is the outcome of the i-th input.
C2_BatchOutputsMatchInputs ==
    bpc = "done" =>
        /\ Len(results) = Len(requests)
        /\ \A i \in 1..Len(requests) :
              /\ results[i].n = i
              /\ requests[i].mapping =>
                    results[i].kind = "processed" /\ results[i].type = GetType(requests[i])
              /\ ~requests[i].mapping => results[i].kind = "error"

C2_Witness ==
    /\ bpc = "done"
    /\ Len(results) >= 2
    /\ requests[1] # requests[2]
    /\ requests[1].mapping /\ requests[2].mapping

\* C3: an item that fails does not abort the batch and changes no other slot:
\* all N items are processed and every other slot holds what it holds in the
\* batch where the failing item is replaced by one that succeeds.
C3_FailureIsolated ==
    bpc = "done" /\ twinAt # 0 =>
        /\ idx = Len(requests)
        /\ Len(results) = Len(requests)
        /\ Len(twinResults) = Len(requests)
        /\ results[twinAt].kind = "error"
        /\ twinResults[twinAt].kind = "processed"
        /\ \A i \in 1..Len(requests) : i # twinAt => results[i] = twinResults[i]

C3_Witness ==
    /\ bpc = "done"
    /\ twinAt = 1
    /\ Len(requests) >= 3
    /\ requests[2].mapping
    /\ ~requests[3].mapping

C5_FallbackMarked == pc = "done" => (res.marker <=> Substituted(res))

C7_NonJsonFallsBack ==
    /\ pc = "done"
    /\ op \in JsonOps
    /\ outcome.kind = "ok"
    /\ "D" \notin Range(outcome.text)
    /\ "S" \notin Range(outcome.text)
    => res.marker /\ Substituted(res) /\ res.text = <<>>

\* the score of the response document, clamped into [0, 1] (in tenths)
Clamped(s) == IF s < 0 THEN 0 ELSE IF s > 10 THEN 10 ELSE s

\* C8: the score grade_submission returns lies in [0, 1], and is the
\* response's score clamped into that range.
C8_ScoreClamped ==
    pc = "done" /\ op = "grade_submission" =>
        /\ res.score \in 0..10
        /\ outcome.kind = "ok" /\ outcome.text = <<"D">> /\ KindOf(outcome.doc, "score") = "number"
              => res.score = Clamped(outcome.doc.score)

\* the elements that carry both a question and an answer, in order
RECURSIVE Complete(_)
Complete(items) ==
    IF items = <<>> THEN <<>>
    ELSE (IF Head(items).q /\ Head(items).a THEN <<Head(items)>> ELSE <<>>)
         \o Complete(Tail(items))

\* C9: generate_quiz on a parsed list of Q/A elements returns a success whose
\* list holds exactly the elements with both a question and an answer, in order.
C9_IncompleteElementsDropped ==
    /\ pc = "done"
    /\ op = "generate_quiz"
    /\ outcome.kind = "ok"
    /\ outcome.text = <<"D">>
    /\ outcome.doc \in {DocQuizFull, DocQuizPartial, DocArray}
    => res.via = "genuine" /\ res.doc.items = Complete(outcome.doc.items)

\* the key a response must carry
RequiredKey(o) == IF o = "generate_assignment" THEN "assignment" ELSE "lesson_plan"

\* C10: valid JSON that misses a required field is a failure, never a success
\* payload, in generate_assignment and generate_lesson_plan.
C10_MissingFieldIsFailure ==
    /\ pc = "done"
    /\ op \in {"generate_assignment", "generate_lesson_plan"}
    /\ outcome.kind = "ok"
    /\ outcome.text = <<"D">>
    /\ outcome.doc.kind = "object"
    /\ ~outcome.doc.sent
    /\ RequiredKey(op) \notin Keys(outcome.doc)
    => ~SuccessShaped(res)

\* C11: in a batch, an item without the fields its shape requires (no 'type')
\* gets a failure in its own slot, and every other item is still processed.
C11_MalformedItemIsInvalidInput ==
    bpc = "done" =>
        /\ Len(results) = Len(requests)
        /\ \A i \in 1..Len(requests) :
              /\ ~(requests[i].mapping /\ requests[i].hasType) => results[i].kind = "error"
              /\ requests[i].mapping /\ requests[i].hasType => results[i].kind = "processed"

\* what the declared shape of an operation's payload requires of a JSON value:
\* a 'quiz' list, an 'assignment' object with a 'questions' list, an object
FullyValid(o, doc) ==
    CASE o = "generate_quiz" -> doc.kind = "object" /\ KindOf(doc, "quiz") = "list"
      [] o = "generate_assignment" ->
            /\ doc.kind = "object"
            /\ KindOf(doc, "assignment") = "dict"
            /\ KindOf(doc, "assignment/questions") = "list"
      [] OTHER -> doc.kind = "object"

\* C12: a result is never partially populated: what an operation returns from
\* the parsed response is fully valid for its declared shape; a JSON value of
\* the wrong shape is a failure or the fallback.
C12_NeverPartiallyPopulated ==
    /\ pc = "done"
    /\ op \in {"generate_quiz", "generate_assignment", "grade_assignment"}
    /\ res.via = "genuine"
    => FullyValid(op, res.doc)

\* C13: a deployment with a non-positive requests-per-minute, without an API
\* key or without the SDK gets no service instance: construction fails, and no
\* remote call is made.
C13_InvalidConfigRejected ==
    env.rpm <= 0 \/ env.key = "unset" \/ ~env.sdk =>
        inst = NoInstance /\ ctorExc # "none" /\ icalls = 0

\* the content of the first fenced segment of a text: what follows the first
\* fence marker and its language tag, up to the next fence marker or the end;
\* the whole text when it holds no fence marker
FirstFenced(text) ==
    LET t == Strip(text)
        i == Find(t, Fence)
        rest == SubSeq(t, i + 1, Len(t))
        body == IF rest # <<>> /\ Head(rest) = "J" THEN Tail(rest) ELSE rest
        j == Find(body, Fence)
    IN  IF i = 0 THEN t
        ELSE Strip(IF j = 0 THEN body ELSE SubSeq(body, 1, j - 1))

\* the text an operation hands to json.loads
Cleaned(o, text) ==
    IF o = "grade_assignment" THEN CleanJsonFence(text) ELSE CleanFenced(text)

\* C14: in generate_quiz, generate_assignment and grade_assignment the text
\* that is parsed is the content of the first fenced segment when the stripped
\* response holds a fence marker, and the stripped response otherwise.
C14_FirstFencedSegment ==
    /\ pc = "done"
    /\ op \in {"generate_quiz", "generate_assignment", "grade_assignment"}
    /\ outcome.kind = "ok"
    /\ ~HasSentinel(resp)
    => Cleaned(op, resp.text) = FirstFenced(resp.text)

\* C15: during a batch every index is taken once, in turn, and every output
\* slot is written once, by the iteration that took its index: a step of the
\* loop leaves the slots already written as they are and fills at most the
\* next one.
C15_SlotsWrittenOnce ==
    [][bpc = "loop" =>
          /\ Len(results) = idx
          /\ idx' \in {idx, idx + 1}
          /\ Len(results') = idx'
          /\ \A i \in 1..Len(results) : results'[i] = results[i]]_vars

C15_Witness ==
    /\ bpc = "done"
    /\ Len(results) >= 3
    /\ results[1] # results[3]

\* C16: a failed remote call is signalled in the returned text: _call_gemini
\* returns a string holding "AI service temporarily unavailable"; and in the
\* operations that test for it a successful response whose text holds that
\* phrase gets what a failed call gets, the fallback payload.
C16_SentinelInBand ==
    /\ pc \in {"returned", "done"} /\ outcome.kind = "raise" =>
          ~resp.none /\ "S" \in Range(resp.text)
    /\ pc = "done" /\ op \in SentinelOps /\ outcome.kind = "ok" /\ HasSentinel(resp) =>
          /\ res.via = "sentinel"
          /\ res = Execute(op, CallGemini(RaiseOutcome(<<>>)), num)

C16_Witness ==
    /\ pc = "done"
    /\ op = "generate_lesson_plan"
    /\ outcome = OkOutcome(<<"D">>, DocSentinel)
    /\ res.via = "sentinel"
    /\ res.marker

\* the operations that do not test the response for the unavailability message
PassThroughOps == Ops \ SentinelOps

\* C17: in the operations that do not test for the unavailability message a
\* failed remote call does not reach the except branch: the result has no
\* "error" entry and no fallback marker, and its content is the message (for
\* generate_flashcards: no card, unless the message holds a bar).
C17_FailureIsGenuineContent ==
    pc = "done" /\ outcome.kind = "raise" /\ op \in PassThroughOps =>
        /\ res.via = "genuine"
        /\ ~res.error
        /\ ~res.marker
        /\ op # "generate_flashcards" =>
              res.text = resp.text /\ "S" \in Range(res.text) /\ ~res.null
        /\ op = "generate_flashcards" /\ "B" \notin Range(outcome.msg) => res.cards = <<>>
        /\ op = "generate_flashcards" /\ "B" \in Range(outcome.msg) /\ num >= 1 =>
              Len(res.cards) = 1

C17_Witness ==
    /\ pc = "done"
    /\ op = "generate_flashcards"
    /\ outcome = RaiseOutcome(<<"B">>)
    /\ num >= 1
    /\ res.via = "genuine"
    /\ Len(res.cards) = 1

C19_ScoreByCallOutcome ==
    pc = "done" /\ op = "grade_submission" =>
        /\ outcome.kind = "ok" => res.score = ScoreGenuine
        /\ outcome.kind = "raise" => res.score = ScoreSentinel
        /\ res.score = ScoreExcept => res.via = "except"

\* C19 as amended: the score of grade_submission depends on the response only
\* through whether its text holds the unavailability phrase: 8.0 when it does
\* (a failed call, or a successful response holding the phrase), 8.5 when it
\* does not, 7.5 only from the except branch (response.text is None).
C19_ScoreByResponseClass ==
    pc = "done" /\ op = "grade_submission" =>
        /\ res.score = IF resp.none THEN ScoreExcept
                       ELSE IF HasSentinel(resp) THEN ScoreSentinel
                       ELSE ScoreGenuine
        /\ outcome.kind = "raise" => res.score = ScoreSentinel
        /\ res.score = ScoreExcept <=> res.via = "except"

C19_Witness ==
    /\ pc = "done"
    /\ op = "grade_submission"
    /\ outcome = OkOutcome(<<"D">>, DocScore(14))
    /\ res.score = ScoreGenuine

\* the string process_batch_requests gives for the item at position i (from 1)
OutputFor(i, request) ==
    IF request.mapping THEN Processed(i, GetType(request)) ELSE ErrorProcessing(i)

\* C20: process_batch_requests makes no remote call and goes through the
\* items one by one in input order; the i-th output is "Processed request i:
\* <type>", with 'unknown' for a missing type, or "Error processing request
\* i: ..." when reading the item raises: a function of the item and i alone.
C20_BatchIsLocalAndSequential ==
    /\ bcalls = 0
    /\ bpc = "loop" => Len(results) = idx
    /\ bpc = "done" => Len(results) = Len(requests)
    /\ bpc # "idle" =>
          \A i \in 1..Len(results) : results[i] = OutputFor(i, requests[i])

C20_Witness ==
    /\ bpc = "done"
    /\ requests = <<UntypedItem, NotAMapping, TypedItem("chat")>>
    /\ results = <<Processed(1, "unknown"), ErrorProcessing(2), Processed(3, "chat")>>

\* C21: for num_questions >= 0 the fallback quiz holds exactly
\* min(num_questions, 3) questions and the fallback assignment exactly
\* min(num_questions, 5), a prefix of the fixed list in its order: never more
\* than requested, fewer when more than the list holds are requested.
C21_FallbackBoundedByRequest ==
    pc = "done" /\ op \in {"generate_quiz", "generate_assignment"} /\ Substituted(res) =>
        LET fixed == IF op = "generate_quiz" THEN FallbackQuizQuestions
                     ELSE FallbackAssignmentQuestions
            cap == IF op = "generate_quiz" THEN 3 ELSE 5
        IN  /\ Len(res.qs) = Min(num, cap)
            /\ Len(res.qs) <= num
            /\ res.qs = SubSeq(fixed, 1, Len(res.qs))
            /\ num > cap => Len(res.qs) < num

C21_Witness ==
    /\ pc = "done"
    /\ op = "generate_assignment"
    /\ num = 6
    /\ res.via = "jsonerror"
    /\ res.qs = <<1, 2, 3, 4, 5>>

====
